---------------------------- MODULE Spec2Model ----------------------------
(***************************************************************************)
(* A model of the Information-Set Monte Carlo Tree Search engine of        *)
(* src/ISMCTS.py: the node tree (ActionNode, SamplingNode), the spawned    *)
(* trees, the visit / expand / eval_model protocol, interval PUCT          *)
(* selection and Tree.get_visit_distribution.                              *)
(*                                                                         *)
(* A visit is a recursive call.  The model keeps the call stack: one frame *)
(* per active visit, holding the node and the call site the frame waits    *)
(* at.  One action is the code of one handler between two visit-call       *)
(* boundaries, so every state is a state the program is in when a visit    *)
(* is called or returns.                                                   *)
(*                                                                         *)
(* Reals.  Python floats are modelled as exact numbers of the form         *)
(* (n + t * 1e-8) / d, written <<n, t, d>> with d > 0 and gcd(n, t, d) = 1.*)
(* All arithmetic of the program on values (sums, differences, products    *)
(* with a probability, division by a visit count) is linear, so the form   *)
(* is closed under it.  Two such numbers with small n, t, d are ordered by *)
(* the sign of the n part of their difference and, when that is zero, by   *)
(* its t part.  Probabilities are plain rationals (t = 0).                 *)
(***************************************************************************)
EXTENDS Integers, Sequences, FiniteSets, TLC

(* ------------------------------ bounds -------------------------------- *)

\* Largest visit-count target n passed to get_visit_distribution.
MaxN == 3

(* ------------------------ program constants --------------------------- *)

\* Constants.EPS = 0.05 = EPS_NUM / EPS_DEN
EPS_NUM == 1
EPS_DEN == 20
\* Constants.c_PUCT = 1.0
c_PUCT == 1
\* CHEAT = True: children are evaluated as soon as they are created
CHEAT == TRUE

\* Python's None where an int (a card, an action, an owner) is expected
None == 0 - 1
\* None where a float is expected, and where an array is expected
NoVal == <<0, 0, 0>>
NoDist == <<>>

\* F applied to the value of e: e is evaluated once, whatever F does with it
With(e, F(_)) == CHOOSE r \in {F(x) : x \in {e}} : TRUE

(* ------------------------------ numbers ------------------------------- *)

Abs(i) == IF i < 0 THEN -i ELSE i

Sgn(i) == IF i > 0 THEN 1 ELSE IF i < 0 THEN -1 ELSE 0

RECURSIVE Gcd(_, _)
Gcd(a, b) == IF b = 0 THEN a ELSE Gcd(b, a % b)

\* <<n, t, d>> in lowest terms
Norm(n, t, d) ==
    LET g == Gcd(Gcd(Abs(n), Abs(t)), d)
    IN  <<n \div g, t \div g, d \div g>>

Rat(p, q) == Norm(p, 0, q)
Zero == <<0, 0, 1>>
One == <<1, 0, 1>>
\* the literal 1e-8 of computePUCT
Tol == <<0, 1, 1>>
\* the literal 1e-6 of apply_H_mask
MaskFloor == <<0, 100, 1>>

Add(x, y) == Norm(x[1] * y[3] + y[1] * x[3], x[2] * y[3] + y[2] * x[3], x[3] * y[3])
Neg(x) == <<-x[1], -x[2], x[3]>>
Sub(x, y) == Add(x, Neg(y))
\* x * w for a plain rational w
Mul(x, w) == Norm(x[1] * w[1], x[2] * w[1], x[3] * w[3])
\* x / w for a plain rational w > 0, or for x and w both multiples of 1e-8
Div(x, w) ==
    IF w[1] = 0 /\ x[1] = 0
    THEN Norm(x[2] * w[3], 0, x[3] * w[2])
    ELSE Norm(x[1] * w[3], x[2] * w[3], x[3] * w[1])
DivInt(x, k) == Norm(x[1], x[2], x[3] * k)
MulInt(x, k) == Norm(x[1] * k, x[2] * k, x[3])

Sign(x) == IF x[1] # 0 THEN Sgn(x[1]) ELSE Sgn(x[2])
Lt(x, y) == Sign(Sub(x, y)) < 0
Le(x, y) == Sign(Sub(x, y)) <= 0
Min2(x, y) == IF Le(x, y) THEN x ELSE y
Max2(x, y) == IF Le(x, y) THEN y ELSE x

RECURSIVE SumOver(_, _)
\* sum of f[i] over the finite set S
SumOver(f, S) ==
    IF S = {} THEN Zero
    ELSE LET i == CHOOSE j \in S : TRUE IN Add(f[i], SumOver(f, S \ {i}))

\* intervals: <<lower, upper>>; to_interval of a scalar
to_interval(v) == <<v, v>>
IAdd(a, b) == <<Add(a[1], b[1]), Add(a[2], b[2])>>
ISubScalar(a, v) == <<Sub(a[1], v), Sub(a[2], v)>>
IMulInt(a, k) == <<MulInt(a[1], k), MulInt(a[2], k)>>
IDivInt(a, k) == <<DivInt(a[1], k), DivInt(a[2], k)>>

\* the sign of x + (p / q) * sqrt(S), for a number x, a plain rational
\* <<p, 0, q>> and a natural S (np.sqrt(np.sum(N)) of computePUCT)
IsSquare(S) == \E r \in 0..S : r * r = S
Root(S) == CHOOSE r \in 0..S : r * r = S
SignPlusSqrt(x, y, S) ==
    IF IsSquare(S) THEN Sign(Add(x, MulInt(y, Root(S))))
    ELSE IF y[1] = 0 THEN Sign(x)
    ELSE IF x[1] = 0 THEN Sgn(y[1])
    ELSE IF Sgn(x[1]) = Sgn(y[1]) THEN Sgn(x[1])
    ELSE \* opposite signs: compare |x| with |y| sqrt(S) by the squares
         LET g == Gcd(Abs(x[1]) * y[3], Abs(y[1]) * x[3])
             a == (Abs(x[1]) * y[3]) \div g
             b == (Abs(y[1]) * x[3]) \div g
         IN  IF a * a > S * b * b THEN Sgn(x[1]) ELSE Sgn(y[1])


(* ------------------- InfoSet (external collaborator) ------------------ *)
(* The information set of a two-player game in which the players move in  *)
(* turn, GameLen moves in all, and each holds one private card out of     *)
(* NumCards.  cards[i] = None: player i's card is hidden from the owner   *)
(* of the information set.                                                *)

NumPlayers == 2
NumCards == 3
GameLen == 2
Players == 0..(NumPlayers - 1)
Cards == 0..(NumCards - 1)
ActionList == <<0, 1>>

get_current_player(info) == Len(info.hist) % NumPlayers

has_hidden_info(info) == \E i \in Players : info.cards[i] = None

\* a fold (the last action is 0) loses; otherwise the higher card wins
Winner(info) ==
    LET last == info.hist[Len(info.hist)]
        mover == (Len(info.hist) - 1) % NumPlayers
    IN  IF last = 0 THEN 1 - mover
        ELSE IF info.cards[0] > info.cards[1] THEN 0 ELSE 1

\* None unless the game is over and every card is known
get_game_outcome(info) ==
    IF Len(info.hist) = GameLen /\ ~has_hidden_info(info)
    THEN [i \in Players |-> IF i = Winner(info) THEN One ELSE Zero]
    ELSE NoDist

get_actions(info) == ActionList

apply(info, a) == [info EXCEPT !.hist = Append(@, a)]

get_H_mask(info) ==
    [h \in Cards |-> IF \E i \in Players : info.cards[i] = h THEN 0 ELSE 1]

instantiate_hidden_state(info, h) ==
    LET i == CHOOSE j \in Players :
                 /\ info.cards[j] = None
                 /\ \A k \in Players : info.cards[k] = None => j <= k
    IN  [info EXCEPT !.cards[i] = h]

(* --------------------- Model (external collaborator) ------------------ *)
(* The oracle is a pure function of (owner, info set).  A model m names   *)
(* one oracle: m.p its policy prior, m.v its values, m.h its hidden-state *)
(* distribution before masking.                                           *)

ModelSet ==
    { [p |-> "uniform", v |-> "flat", h |-> "uniform"],
      [p |-> "skew",    v |-> "bias", h |-> "first"],
      [p |-> "uniform", v |-> "bias", h |-> "first"] }

ModelV(m, owner, info) ==
    IF m.v = "flat" \/ info.hist = <<>> THEN Rat(1, 2)
    ELSE IF (info.hist[Len(info.hist)] + owner) % 2 = 0 THEN Rat(1, 4)
    ELSE Rat(3, 4)

action_eval(m, owner, info) ==
    [ P  |-> IF m.p = "uniform" THEN [a \in 0..1 |-> Rat(1, 2)]
             ELSE IF m.p = "skew"
             THEN [a \in 0..1 |-> IF a = 0 THEN Rat(3, 4) ELSE Rat(1, 4)]
             ELSE m.P,
      V  |-> ModelV(m, owner, info),
      Vc |-> [a \in 0..1 |-> ModelV(m, owner, apply(info, a))] ]

hidden_eval(m, owner, info) ==
    [ H  |-> IF m.h = "uniform" THEN [h \in Cards |-> Rat(1, NumCards)]
             ELSE IF m.h = "first"
             THEN [h \in Cards |-> IF h = 0 THEN One ELSE Zero]
             ELSE m.H,
      V  |-> ModelV(m, owner, info),
      Vc |-> [h \in Cards |-> ModelV(m, owner, info)] ]


(* ------------------------------- state -------------------------------- *)

VARIABLES
    model,       \* the oracle every tree was built with (Tree.model)
    nodes,       \* the node objects, by path from the main root
    trees,       \* the global list `trees`, in creation order
    modelCalls,  \* per node: how many times the Model was queried for it
    visitCalls,  \* per node: how many times visit was called on it
    stack,       \* the active visit calls, outermost first
    ret,         \* what the last visit that returned has returned
    status,      \* "idle" | "loop" | "returned" | "raised"
    target,      \* the n of the get_visit_distribution call in progress
    result,      \* what the last get_visit_distribution returned or raised
    rootN0,      \* root.N when the call in progress began
    loopVisits   \* root visits made by the call in progress

vars == <<model, nodes, trees, modelCalls, visitCalls, stack, ret, status,
          target, result, rootN0, loopVisits>>

(* A node is named by its path: the main root is <<>>, the child under    *)
(* key k of the node p is Append(p, k), and the root of the tree spawned  *)
(* for the node p is Append(p, SPAWN).                                    *)
SPAWN == 0 - 1
RootPath == <<>>
ChildPath(p, k) == Append(p, k)
SpawnRoot(p) == Append(p, SPAWN)

IsPrefix(p, q) == Len(p) <= Len(q) /\ SubSeq(q, 1, Len(p)) = p

\* the nodes of the tree spawned for p, and of the trees spawned from it
InSpawnedTree(p, q) == IsPrefix(SpawnRoot(p), q)

(* The heap an operation works on: [nodes, calls, visits, trees].         *)
Heap == [nodes |-> nodes, calls |-> modelCalls, visits |-> visitCalls, trees |-> trees]

AddNode(h, p, node) ==
    [h EXCEPT !.nodes = @ @@ (p :> node),
              !.calls = @ @@ (p :> 0),
              !.visits = @ @@ (p :> 0)]

(* -------------------------------- Node -------------------------------- *)

\* Node.__init__ ; residual_Q_to_V = 0 broadcasts to the interval (0, 0)
Node(kind, info, owner, Q) ==
    [ kind |-> kind,
      info_set |-> info,
      cp |-> get_current_player(info),
      game_outcome |-> get_game_outcome(info),
      Q |-> Q,
      N |-> 0,
      tree_owner |-> owner,
      children |-> <<>>,
      residual_Q_to_V |-> to_interval(Zero),
      actions |-> <<>>, P |-> NoDist, H |-> NoDist, H_mask |-> NoDist,
      V |-> NoVal, Vc |-> NoDist, spawned_tree |-> FALSE, expanded |-> FALSE ]

terminal(n) == n.game_outcome # NoDist

\* ActionNode.__init__
ActionNode(info, owner, initQ) ==
    LET base == [Node("Action", info, owner, to_interval(initQ))
                    EXCEPT !.actions = get_actions(info)]
    IN  IF terminal(base)
        THEN [base EXCEPT !.V = base.game_outcome[owner],
                          !.Q = to_interval(base.game_outcome[owner])]
        ELSE base

\* SamplingNode.__init__ ; the mask of this game always has a legal entry
SamplingNode(info, owner, initQ) ==
    [Node("Sampling", info, owner, to_interval(initQ))
        EXCEPT !.H_mask = get_H_mask(info)]

\* Node.add_child: the new edge gets the next index
add_child(h, p, key) == [h EXCEPT !.nodes[p].children = Append(@, key)]

ChildKeys(n) == {n.children[i] : i \in 1..Len(n.children)}

\* eval_model without the "already evaluated" test
ActionNode_eval_model_NoGuard(h, p) ==
    LET n == h.nodes[p]
    IN  IF terminal(n) THEN h
        ELSE LET out == action_eval(model, n.tree_owner, n.info_set)
             IN  [h EXCEPT !.nodes[p] = [n EXCEPT !.P = out.P, !.V = out.V,
                                                  !.Vc = out.Vc,
                                                  !.Q = to_interval(out.V)],
                           !.calls[p] = @ + 1]

\* ActionNode.eval_model
ActionNode_eval_model(h, p) ==
    LET n == h.nodes[p]
    IN  IF n.P # NoDist \/ terminal(n) THEN h
        ELSE LET out == action_eval(model, n.tree_owner, n.info_set)
             IN  [h EXCEPT !.nodes[p] = [n EXCEPT !.P = out.P, !.V = out.V,
                                                  !.Vc = out.Vc,
                                                  !.Q = to_interval(out.V)],
                           !.calls[p] = @ + 1]

\* the fallback taken uniform over every index, legal or not
apply_H_mask_UniformOverAll(H, H_mask) ==
    LET masked == [i \in DOMAIN H |-> MulInt(H[i], H_mask[i])]
        H_sum == SumOver(masked, DOMAIN masked)
    IN  IF Lt(H_sum, MaskFloor)
        THEN [i \in DOMAIN H_mask |-> Rat(1, Cardinality(DOMAIN H_mask))]
        ELSE [i \in DOMAIN masked |-> Div(masked[i], H_sum)]

\* the fallback taken only when the retained mass is exactly 0
apply_H_mask_FallbackAtZero(H, H_mask) ==
    LET masked == [i \in DOMAIN H |-> MulInt(H[i], H_mask[i])]
        H_sum == SumOver(masked, DOMAIN masked)
        mask_sum == Cardinality({i \in DOMAIN H_mask : H_mask[i] = 1})
    IN  IF H_sum = Zero
        THEN [i \in DOMAIN H_mask |-> Rat(H_mask[i], mask_sum)]
        ELSE [i \in DOMAIN masked |-> Div(masked[i], H_sum)]

\* apply_H_mask without the product self.H *= self.H_mask
apply_H_mask_NoProduct(H, H_mask) ==
    LET H_sum == SumOver(H, DOMAIN H)
        mask_sum == Cardinality({i \in DOMAIN H_mask : H_mask[i] = 1})
    IN  IF Lt(H_sum, MaskFloor)
        THEN [i \in DOMAIN H_mask |-> Rat(H_mask[i], mask_sum)]
        ELSE [i \in DOMAIN H |-> Div(H[i], H_sum)]

\* SamplingNode.apply_H_mask
apply_H_mask(H, H_mask) ==
    LET masked == [i \in DOMAIN H |-> MulInt(H[i], H_mask[i])]
        H_sum == SumOver(masked, DOMAIN masked)
        mask_sum == Cardinality({i \in DOMAIN H_mask : H_mask[i] = 1})
    IN  IF Lt(H_sum, MaskFloor)
        THEN [i \in DOMAIN H_mask |-> Rat(H_mask[i], mask_sum)]
        ELSE [i \in DOMAIN masked |-> Div(masked[i], H_sum)]

\* SamplingNode.eval_model
SamplingNode_eval_model(h, p) ==
    LET n == h.nodes[p]
    IN  IF n.H # NoDist THEN h
        ELSE LET out == hidden_eval(model, n.tree_owner, n.info_set)
             IN  [h EXCEPT !.nodes[p] = [n EXCEPT !.H = apply_H_mask(out.H, n.H_mask),
                                                  !.V = out.V, !.Vc = out.Vc,
                                                  !.Q = to_interval(out.V)],
                           !.calls[p] = @ + 1]

eval_model(h, p) ==
    IF h.nodes[p].kind = "Action" THEN ActionNode_eval_model(h, p)
    ELSE SamplingNode_eval_model(h, p)

\* Tree.__init__: the root takes the tree's owner, the tree joins `trees`
Tree(h, rootPath) ==
    LET owner == get_current_player(h.nodes[rootPath].info_set)
    IN  [h EXCEPT !.nodes[rootPath].tree_owner = owner,
                  !.trees = Append(@, [root |-> rootPath, tree_owner |-> owner,
                                       tree_id |-> Len(@)])]

\* SamplingNode.create_spawned_tree, for the child at path c
create_spawned_tree(h, c, info) ==
    LET cp == get_current_player(info)
        redacted == [info EXCEPT !.cards =
                        [i \in Players |-> IF i # cp THEN None ELSE info.cards[i]]]
        root == ActionNode(redacted, None, Zero)
    IN  Tree(AddNode(h, SpawnRoot(c), root), SpawnRoot(c))

RECURSIVE ActionNode_expand_loop_KindByPlayer(_, _, _)
\* the loop of expand with the child's class chosen by the change of player
\* alone
ActionNode_expand_loop_KindByPlayer(h, p, i) ==
    LET n == h.nodes[p]
    IN  IF i > Len(n.actions) THEN h
        ELSE LET a == n.actions[i]
                 info == apply(n.info_set, a)
                 c == ChildPath(p, a)
                 node == IF n.cp # get_current_player(info)
                         THEN SamplingNode(info, n.tree_owner, n.Vc[a])
                         ELSE ActionNode(info, n.tree_owner, n.Vc[a])
                 h1 == add_child(AddNode(h, c, node), p, a)
                 h2 == IF CHEAT THEN eval_model(h1, c) ELSE h1
             IN  With(h2, LAMBDA x : ActionNode_expand_loop_KindByPlayer(x, p, i + 1))

RECURSIVE ActionNode_expand_loop(_, _, _)
\* the loop of ActionNode.expand over self.actions, from the i-th on
ActionNode_expand_loop(h, p, i) ==
    LET n == h.nodes[p]
    IN  IF i > Len(n.actions) THEN h
        ELSE LET a == n.actions[i]
                 info == apply(n.info_set, a)
                 c == ChildPath(p, a)
                 node == IF n.cp # get_current_player(info) /\ has_hidden_info(info)
                         THEN SamplingNode(info, n.tree_owner, n.Vc[a])
                         ELSE ActionNode(info, n.tree_owner, n.Vc[a])
                 h1 == add_child(AddNode(h, c, node), p, a)
                 h2 == IF CHEAT THEN eval_model(h1, c) ELSE h1
             IN  With(h2, LAMBDA x : ActionNode_expand_loop(x, p, i + 1))

\* ActionNode.expand
ActionNode_expand(h, p) ==
    LET h1 == [h EXCEPT !.nodes[p].expanded = TRUE]
    IN  IF terminal(h.nodes[p]) THEN h1
        ELSE With(ActionNode_expand_loop(ActionNode_eval_model(h1, p), p, 1),
                  LAMBDA h2 : [h2 EXCEPT !.nodes[p].Q = to_interval(h2.nodes[p].V)])

RECURSIVE SamplingNode_expand_loop_NoSpawn(_, _, _)
\* the loop of SamplingNode.expand without the spawned tree of an ActionNode
\* child
SamplingNode_expand_loop_NoSpawn(h, p, k) ==
    LET n == h.nodes[p]
    IN  IF k >= NumCards THEN h
        ELSE IF n.H_mask[k] = 0 THEN SamplingNode_expand_loop_NoSpawn(h, p, k + 1)
        ELSE LET info == instantiate_hidden_state(n.info_set, k)
                 c == ChildPath(p, k)
                 h1 == IF has_hidden_info(info)
                       THEN AddNode(h, c, SamplingNode(info, n.tree_owner, n.Vc[k]))
                       ELSE AddNode(h, c, ActionNode(info, n.tree_owner, n.Vc[k]))
                 h2 == add_child(h1, p, k)
                 h3 == IF CHEAT THEN eval_model(h2, c) ELSE h2
             IN  With(h3, LAMBDA x : SamplingNode_expand_loop_NoSpawn(x, p, k + 1))

RECURSIVE SamplingNode_expand_loop(_, _, _)
\* the loop of SamplingNode.expand over np.where(self.H_mask), from index k on
SamplingNode_expand_loop(h, p, k) ==
    LET n == h.nodes[p]
    IN  IF k >= NumCards THEN h
        ELSE IF n.H_mask[k] = 0 THEN SamplingNode_expand_loop(h, p, k + 1)
        ELSE LET info == instantiate_hidden_state(n.info_set, k)
                 c == ChildPath(p, k)
                 h1 == IF has_hidden_info(info)
                       THEN AddNode(h, c, SamplingNode(info, n.tree_owner, n.Vc[k]))
                       ELSE LET h0 == AddNode(h, c, ActionNode(info, n.tree_owner, n.Vc[k]))
                            IN  [create_spawned_tree(h0, c, info)
                                    EXCEPT !.nodes[c].spawned_tree = TRUE]
                 h2 == add_child(h1, p, k)
                 h3 == IF CHEAT THEN eval_model(h2, c) ELSE h2
             IN  With(h3, LAMBDA x : SamplingNode_expand_loop(x, p, k + 1))

\* SamplingNode.expand
SamplingNode_expand(h, p) ==
    LET h1 == SamplingNode_expand_loop(SamplingNode_eval_model(h, p), p, 0)
    IN  [h1 EXCEPT !.nodes[p].expanded = TRUE]


(* --------------------- interval union / perturbation ------------------ *)

RECURSIVE Greedy(_, _, _, _, _, _)
\* Spend the free mass R on the children of `rem`, the child of the best
\* value first (the lowest for the lower bound, the highest for the upper):
\* the extreme weighted sum over the weights within eps of w in the simplex.
Greedy(rem, R, vals, wlo, whi, upper) ==
    IF rem = {} THEN Zero
    ELSE LET best == CHOOSE i \in rem : \A j \in rem :
                        /\ IF upper THEN Le(vals[j], vals[i]) ELSE Le(vals[i], vals[j])
                        /\ (vals[j] = vals[i] => i <= j)
             give == Min2(Sub(whi[best], wlo[best]), R)
         IN  Add(Mul(vals[best], Add(wlo[best], give)),
                 Greedy(rem \ {best}, Sub(R, give), vals, wlo, whi, upper))

\* utils.perturb_prob_simplex(intervals, probs, eps), on sequences
perturb_prob_simplex(intervals, probs, eps) ==
    LET I == 1..Len(intervals)
        wlo == [i \in I |-> Max2(Zero, Sub(probs[i], eps))]
        whi == [i \in I |-> Min2(One, Add(probs[i], eps))]
        free == Sub(One, SumOver(wlo, I))
    IN  << Greedy(I, free, [i \in I |-> intervals[i][1]], wlo, whi, FALSE),
           Greedy(I, free, [i \in I |-> intervals[i][2]], wlo, whi, TRUE) >>

\* Node.calc_union_interval
calc_union_interval(h, p, probs) ==
    LET n == h.nodes[p]
        Vc_intervals == [i \in 1..Len(n.children) |->
                            to_interval(h.nodes[ChildPath(p, n.children[i])].V)]
        weights == [i \in 1..Len(n.children) |-> probs[n.children[i]]]
    IN  perturb_prob_simplex(Vc_intervals, weights, Rat(EPS_NUM, EPS_DEN))

\* the residual accumulated with the gap reversed: V - Q for Q - V
update_Q_ReversedGap(h, p, c, probs) ==
    LET n == h.nodes[p]
        Q == IAdd(calc_union_interval(h, p, probs), h.nodes[c].residual_Q_to_V)
        gap == <<Sub(n.V, Q[1]), Sub(n.V, Q[2])>>
        residual == IDivInt(IAdd(IMulInt(n.residual_Q_to_V, n.N - 1), gap), n.N)
    IN  [h EXCEPT !.nodes[p].Q = Q, !.nodes[p].residual_Q_to_V = residual]

\* self.Q = union_interval + child.residual_Q_to_V
\* self.residual_Q_to_V = (self.residual_Q_to_V * (self.N - 1) + self.Q - self.V) / self.N
update_Q(h, p, c, probs) ==
    LET n == h.nodes[p]
        Q == IAdd(calc_union_interval(h, p, probs), h.nodes[c].residual_Q_to_V)
        residual == IDivInt(IAdd(IMulInt(n.residual_Q_to_V, n.N - 1),
                                 ISubScalar(Q, n.V)), n.N)
    IN  [h EXCEPT !.nodes[p].Q = Q, !.nodes[p].residual_Q_to_V = residual]

(* -------------------------------- PUCT -------------------------------- *)

\* the child behind the edge of index i (0-based) of the node p
EdgeChild(h, p, i) == h.nodes[ChildPath(p, h.nodes[p].children[i + 1])]

EdgeIndices(h, p) == 0..(Len(h.nodes[p].children) - 1)

\* np.sum(N) over the children
PUCT_sumN(h, p) ==
    LET I == EdgeIndices(h, p)
        Ns == [i \in I |-> <<EdgeChild(h, p, i).N, 0, 1>>]
    IN  SumOver(Ns, I)[1]

\* PUCT = c_PUCT * P * sqrt(sum N) / (N + 1): the factor of sqrt(sum N) for
\* the edge i
PUCT_coef(h, p, i) ==
    DivInt(MulInt(h.nodes[p].P[i], c_PUCT), EdgeChild(h, p, i).N + 1)

\* PUCT = Q + PUCT[:, np.newaxis]: the sign of PUCT[i, bi] - PUCT[j, bj] + slack
\* (bound 1 is the lower bound, bound 2 the upper)
PUCT_cmp(h, p, i, bi, j, bj, slack) ==
    SignPlusSqrt(Add(Sub(EdgeChild(h, p, i).Q[bi], EdgeChild(h, p, j).Q[bj]), slack),
                 Sub(PUCT_coef(h, p, i), PUCT_coef(h, p, j)),
                 PUCT_sumN(h, p))

\* computePUCT with np.argmin in the place of np.argmax
computePUCT_ArgminLower(h, p) ==
    LET I == EdgeIndices(h, p)
        min_lower_bound_index ==
            CHOOSE i \in I : /\ \A j \in I : PUCT_cmp(h, p, i, 1, j, 1, Zero) <= 0
                             /\ \A j \in I : (j < i) => PUCT_cmp(h, p, j, 1, i, 1, Zero) > 0
    IN  { i \in I : PUCT_cmp(h, p, i, 2, min_lower_bound_index, 1, Tol) >= 0 }

\* computePUCT with the tolerance added to the threshold, not subtracted
computePUCT_ToleranceAbove(h, p) ==
    LET I == EdgeIndices(h, p)
        max_lower_bound_index ==
            CHOOSE i \in I : /\ \A j \in I : PUCT_cmp(h, p, i, 1, j, 1, Zero) >= 0
                             /\ \A j \in I : (j < i) => PUCT_cmp(h, p, j, 1, i, 1, Zero) < 0
    IN  { i \in I : PUCT_cmp(h, p, i, 2, max_lower_bound_index, 1, Neg(Tol)) >= 0 }

\* ActionNode.computePUCT: the candidate edge indices (0-based)
computePUCT(h, p) ==
    LET I == EdgeIndices(h, p)
        \* np.argmax(PUCT[:, 0]): the first index of the largest lower bound
        max_lower_bound_index ==
            CHOOSE i \in I : /\ \A j \in I : PUCT_cmp(h, p, i, 1, j, 1, Zero) >= 0
                             /\ \A j \in I : (j < i) => PUCT_cmp(h, p, j, 1, i, 1, Zero) < 0
    IN  \* np.where(PUCT[:, 1] >= max_lower_bound - 1e-8)
        { i \in I : PUCT_cmp(h, p, i, 2, max_lower_bound_index, 1, Tol) >= 0 }

\* a uniform distribution over the candidates substituted when s = 0
get_mixing_distribution_UniformOnZero(n, action_indices) ==
    LET mask == [i \in DOMAIN n.P |-> IF i \in action_indices THEN 1 ELSE 0]
        P == [i \in DOMAIN n.P |-> MulInt(n.P[i], mask[i])]
        s == SumOver(P, DOMAIN P)
    IN  IF ~Lt(Zero, s)
        THEN [i \in DOMAIN P |-> Rat(mask[i], Cardinality(action_indices))]
        ELSE [i \in DOMAIN P |-> Div(P[i], s)]

\* ActionNode.get_mixing_distribution; NoDist when the assertion s > 0 fails
get_mixing_distribution(n, action_indices) ==
    LET mask == [i \in DOMAIN n.P |-> IF i \in action_indices THEN 1 ELSE 0]
        P == [i \in DOMAIN n.P |-> MulInt(n.P[i], mask[i])]
        s == SumOver(P, DOMAIN P)
    IN  IF ~Lt(Zero, s) THEN NoDist
        ELSE [i \in DOMAIN P |-> Div(P[i], s)]

\* the values np.random.choice(len(p), p=p) can return
random_choice(p) == {i \in DOMAIN p : Lt(Zero, p[i])}

(* -------------------------------- visit ------------------------------- *)

Frame(p) == [node |-> p, pc |-> "start", key |-> None]
Top == stack[Len(stack)]
Pop == SubSeq(stack, 1, Len(stack) - 1)
\* the top frame moves to the call site pc, and the callee's frame is pushed
CallFrom(pc, key, callee) ==
    Append([stack EXCEPT ![Len(stack)] = [@ EXCEPT !.pc = pc, !.key = key]],
           Frame(callee))

Commit(h) ==
    /\ nodes' = h.nodes
    /\ modelCalls' = h.calls
    /\ visitCalls' = h.visits
    /\ trees' = h.trees

\* an exception unwinds every active call
Raise(err) ==
    /\ status' = "raised"
    /\ result' = [kind |-> "raise", error |-> err, value |-> NoDist]
    /\ stack' = <<>>
    /\ ret' = None

\* the visit call itself, counted per node
Called(h, p) == [h EXCEPT !.visits[p] = @ + 1]

\* a visit counter bumped only after the terminal check
IncN_AfterTerminalCheck(h, p) ==
    IF terminal(h.nodes[p]) THEN h ELSE [h EXCEPT !.nodes[p].N = @ + 1]

\* a visit of a spawned root counted on the owner of the spawned tree as well
IncN_CountsOwner(h, p) ==
    LET h1 == [h EXCEPT !.nodes[p].N = @ + 1]
    IN  IF p # <<>> /\ p[Len(p)] = SPAWN
        THEN [h1 EXCEPT !.nodes[SubSeq(p, 1, Len(p) - 1)].N = @ + 1]
        ELSE h1

\* self.N += 1
IncN(h, p) == [h EXCEPT !.nodes[p].N = @ + 1]

\* visit without the return after expand: the first visit goes on to select
ActionNode_visit_NoReturnAfterExpand(h, p) ==
    LET h1 == IncN(h, p)
        n == h1.nodes[p]
    IN  IF terminal(n) THEN [heap |-> h1, branch |-> "terminal"]
        ELSE IF n.spawned_tree /\ n.expanded THEN [heap |-> h1, branch |-> "spawned"]
        ELSE [heap |-> IF n.expanded THEN h1 ELSE ActionNode_expand(h1, p),
              branch |-> "unspawned"]

\* visit with the expand test ahead of the terminal test: the first visit of
\* a terminal node hands it to expand
ActionNode_visit_ExpandBeforeTerminal(h, p) ==
    LET h1 == IncN(h, p)
        n == h1.nodes[p]
    IN  IF ~n.expanded
        THEN [heap |-> ActionNode_expand(h1, p), branch |-> "expand"]
        ELSE IF terminal(n) THEN [heap |-> h1, branch |-> "terminal"]
        ELSE IF n.spawned_tree THEN [heap |-> h1, branch |-> "spawned"]
        ELSE [heap |-> h1, branch |-> "unspawned"]

\* ActionNode.visit up to its first call of another visit: the heap after
\* it, and the branch taken
ActionNode_visit(h, p) ==
    LET h1 == IncN(h, p)
        n == h1.nodes[p]
    IN  IF terminal(n) THEN [heap |-> h1, branch |-> "terminal"]
        ELSE IF ~n.expanded THEN [heap |-> ActionNode_expand(h1, p), branch |-> "expand"]
        ELSE IF n.spawned_tree THEN [heap |-> h1, branch |-> "spawned"]
        ELSE [heap |-> h1, branch |-> "unspawned"]

AtStart(kind) ==
    /\ status = "loop"
    /\ stack # <<>>
    /\ Top.pc = "start"
    /\ nodes[Top.node].kind = kind

AtSite(pc) ==
    /\ status = "loop"
    /\ stack # <<>>
    /\ Top.pc = pc


Idle == <<model, status, target, result, rootN0, loopVisits>>

\* ActionNode.visit on a terminal node: count the visit and return
ActionVisitTerminal ==
    /\ AtStart("Action")
    /\ LET p == Top.node
           v == ActionNode_visit(Called(Heap, p), p)
       IN  /\ v.branch = "terminal"
           /\ Commit(v.heap)
    /\ stack' = Pop
    /\ ret' = None
    /\ UNCHANGED Idle

\* ActionNode.visit on a node not yet expanded: expand and return
ActionVisitExpand ==
    /\ AtStart("Action")
    /\ LET p == Top.node
           v == ActionNode_visit(Called(Heap, p), p)
       IN  /\ v.branch = "expand"
           /\ Commit(v.heap)
    /\ stack' = Pop
    /\ ret' = None
    /\ UNCHANGED Idle

\* spawned_visit with the bootstrap visit made on every visit
ActionVisitSpawned_AlwaysBootstrap ==
    /\ AtStart("Action")
    /\ LET p == Top.node
           v == ActionNode_visit(Called(Heap, p), p)
       IN  /\ v.branch = "spawned"
           /\ Commit(v.heap)
           /\ stack' = CallFrom("sv_boot", None, SpawnRoot(p))
    /\ UNCHANGED <<ret, Idle>>

\* ActionNode.visit into spawned_visit, up to the first visit of the
\* spawned root: the bootstrap visit when the root was never visited
ActionVisitSpawned ==
    /\ AtStart("Action")
    /\ LET p == Top.node
           v == ActionNode_visit(Called(Heap, p), p)
       IN  /\ v.branch = "spawned"
           /\ Commit(v.heap)
           /\ stack' = CallFrom(IF v.heap.nodes[SpawnRoot(p)].N = 0
                                THEN "sv_boot" ELSE "sv_root", None, SpawnRoot(p))
    /\ UNCHANGED <<ret, Idle>>

\* spawned_visit: the bootstrap visit returned; visit the spawned root again
SpawnedVisitBootstrapped ==
    /\ AtSite("sv_boot")
    /\ stack' = CallFrom("sv_root", None, SpawnRoot(Top.node))
    /\ UNCHANGED <<nodes, trees, modelCalls, visitCalls, ret, Idle>>

\* spawned_visit: the spawned root returned its action; visit that child
SpawnedVisitSelected ==
    /\ AtSite("sv_root")
    /\ LET p == Top.node
           action == ret
       IN  IF action \in ChildKeys(nodes[p])
           THEN /\ stack' = CallFrom("sv_child", action, ChildPath(p, action))
                /\ UNCHANGED <<ret, status, result>>
           ELSE Raise("KeyError")
    /\ UNCHANGED <<model, nodes, trees, modelCalls, visitCalls, target, rootN0, loopVisits>>

\* spawned_visit: the child returned; update Q and the residual, return None
SpawnedVisitUpdate ==
    /\ AtSite("sv_child")
    /\ LET p == Top.node
       IN  Commit(update_Q(Heap, p, ChildPath(p, Top.key), nodes[p].P))
    /\ stack' = Pop
    /\ ret' = None
    /\ UNCHANGED Idle

\* unspawned_visit that always draws the action from the prior P
ActionVisitUnspawned_AlwaysSample ==
    /\ AtStart("Action")
    /\ LET p == Top.node
           v == ActionNode_visit(Called(Heap, p), p)
           n == v.heap.nodes[p]
       IN  /\ v.branch = "unspawned"
           /\ Commit(v.heap)
           /\ \E action_index \in random_choice(n.P) :
                  LET action == n.actions[action_index + 1]
                  IN  stack' = CallFrom("uv_child", action, ChildPath(p, action))
           /\ UNCHANGED <<ret, status, result>>
    /\ UNCHANGED <<model, target, rootN0, loopVisits>>

\* ActionNode.visit into unspawned_visit, up to the visit of the chosen child
ActionVisitUnspawned ==
    /\ AtStart("Action")
    /\ LET p == Top.node
           v == ActionNode_visit(Called(Heap, p), p)
           n == v.heap.nodes[p]
           action_indices == computePUCT(v.heap, p)
           mixing_distr == get_mixing_distribution(n, action_indices)
       IN  /\ v.branch = "unspawned"
           /\ Commit(v.heap)
           /\ IF Cardinality(action_indices) # 1 /\ mixing_distr = NoDist
              THEN Raise("AssertionError")
              ELSE /\ \E action_index \in
                          IF Cardinality(action_indices) = 1 THEN action_indices
                          ELSE random_choice(mixing_distr) :
                          LET action == n.actions[action_index + 1]
                          IN  stack' = CallFrom("uv_child", action, ChildPath(p, action))
                   /\ UNCHANGED <<ret, status, result>>
    /\ UNCHANGED <<model, target, rootN0, loopVisits>>

\* unspawned_visit: the child returned; update Q and the residual, return
\* the action
UnspawnedVisitUpdate ==
    /\ AtSite("uv_child")
    /\ LET p == Top.node
       IN  Commit(update_Q(Heap, p, ChildPath(p, Top.key), nodes[p].P))
    /\ stack' = Pop
    /\ ret' = Top.key
    /\ UNCHANGED Idle

\* SamplingNode.visit that returns after expanding, as ActionNode.visit does
SamplingVisit_ExpandOnly ==
    /\ AtStart("Sampling")
    /\ LET p == Top.node
           h1 == IncN(Called(Heap, p), p)
           n == h1.nodes[p]
       IN  IF ~n.expanded
           THEN /\ Commit(SamplingNode_expand(h1, p))
                /\ stack' = Pop
                /\ ret' = None
                /\ UNCHANGED <<status, result>>
           ELSE /\ Commit(h1)
                /\ \E hs \in random_choice(n.H) :
                       stack' = CallFrom("sn_child", hs, ChildPath(p, hs))
                /\ UNCHANGED <<ret, status, result>>
    /\ UNCHANGED <<model, target, rootN0, loopVisits>>

\* SamplingNode.visit up to the visit of the sampled child
SamplingVisit ==
    /\ AtStart("Sampling")
    /\ LET p == Top.node
           h1 == IncN(Called(Heap, p), p)
           h2 == IF ~h1.nodes[p].expanded THEN SamplingNode_expand(h1, p) ELSE h1
           n == h2.nodes[p]
       IN  /\ Commit(h2)
           /\ \E hs \in random_choice(n.H) :
                  IF hs \in ChildKeys(n)
                  THEN /\ stack' = CallFrom("sn_child", hs, ChildPath(p, hs))
                       /\ UNCHANGED <<ret, status, result>>
                  ELSE Raise("KeyError")
    /\ UNCHANGED <<model, target, rootN0, loopVisits>>

\* SamplingNode.visit: the child returned; update Q and the residual
SamplingVisitUpdate ==
    /\ AtSite("sn_child")
    /\ LET p == Top.node
       IN  Commit(update_Q(Heap, p, ChildPath(p, Top.key), nodes[p].H))
    /\ stack' = Pop
    /\ ret' = None
    /\ UNCHANGED Idle

(* -------------------------------- Tree -------------------------------- *)

\* a caller calls get_visit_distribution(n)
GetVisitDistribution ==
    /\ status = "idle"
    /\ \E n \in 0..MaxN : target' = n
    /\ status' = "loop"
    /\ rootN0' = nodes[RootPath].N
    /\ loopVisits' = 0
    /\ UNCHANGED <<model, nodes, trees, modelCalls, visitCalls, stack, ret, result>>

\* the loop test with < in the place of <=
LoopCondition_Strict(h, n) == h.nodes[RootPath].N < n

\* while self.root.N <= n
LoopCondition(h, n) == h.nodes[RootPath].N <= n

\* the loop body: self.root.visit(self.model)
TreeLoopVisit ==
    /\ status = "loop"
    /\ stack = <<>>
    /\ LoopCondition(Heap, target)
    /\ stack' = <<Frame(RootPath)>>
    /\ loopVisits' = loopVisits + 1
    /\ UNCHANGED <<model, nodes, trees, modelCalls, visitCalls, ret, status,
                   target, result, rootN0>>

\* n_total = self.root.N - 1; {action: edge.node.N / n_total ...}
visit_distribution(h) ==
    LET root == h.nodes[RootPath]
        n_total == root.N - 1
    IN  IF root.children # <<>> /\ n_total = 0
        THEN [kind |-> "raise", error |-> "ZeroDivisionError", value |-> NoDist]
        ELSE [kind |-> "return", error |-> "",
              value |-> [a \in ChildKeys(root) |->
                            Rat(h.nodes[ChildPath(RootPath, a)].N, n_total)]]

\* the loop ends: get_visit_distribution returns the distribution, or raises
TreeLoopExit ==
    /\ status = "loop"
    /\ stack = <<>>
    /\ ~LoopCondition(Heap, target)
    /\ result' = visit_distribution(Heap)
    /\ status' = IF result'.kind = "raise" THEN "raised" ELSE "idle"
    /\ UNCHANGED <<model, nodes, trees, modelCalls, visitCalls, stack, ret,
                   target, rootN0, loopVisits>>

(* ---------------------------- specification --------------------------- *)

RootInfoSet(card) ==
    [hist |-> <<>>, cards |-> [i \in Players |-> IF i = 0 THEN card ELSE None]]

\* root = ActionNode(info_set); tree = Tree(model, root)
InitHeap(card) ==
    Tree([nodes |-> (RootPath :> ActionNode(RootInfoSet(card), None, Zero)),
          calls |-> (RootPath :> 0),
          visits |-> (RootPath :> 0),
          trees |-> <<>>], RootPath)

NoResult == [kind |-> "none", error |-> "", value |-> NoDist]

Init ==
    /\ model \in ModelSet
    /\ \E card \in Cards :
          /\ nodes = InitHeap(card).nodes
          /\ trees = InitHeap(card).trees
    /\ modelCalls = (RootPath :> 0)
    /\ visitCalls = (RootPath :> 0)
    /\ stack = <<>>
    /\ ret = None
    /\ status = "idle"
    /\ target = 0
    /\ result = NoResult
    /\ rootN0 = 0
    /\ loopVisits = 0

Next ==
    \/ GetVisitDistribution
    \/ TreeLoopVisit
    \/ TreeLoopExit
    \/ ActionVisitTerminal
    \/ ActionVisitExpand
    \/ ActionVisitSpawned
    \/ SpawnedVisitBootstrapped
    \/ SpawnedVisitSelected
    \/ SpawnedVisitUpdate
    \/ ActionVisitUnspawned
    \/ UnspawnedVisitUpdate
    \/ SamplingVisit
    \/ SamplingVisitUpdate

Spec == Init /\ [][Next]_vars

\* Every step but the caller's next call of get_visit_distribution: the
\* interpreter runs the call in progress to its end.
Run ==
    \/ TreeLoopVisit
    \/ TreeLoopExit
    \/ ActionVisitTerminal
    \/ ActionVisitExpand
    \/ ActionVisitSpawned
    \/ SpawnedVisitBootstrapped
    \/ SpawnedVisitSelected
    \/ SpawnedVisitUpdate
    \/ ActionVisitUnspawned
    \/ UnspawnedVisitUpdate
    \/ SamplingVisit
    \/ SamplingVisitUpdate

\* Run is enabled exactly while a call is in progress: each of its actions
\* requires status = "loop", and no such state is without a Run step.
RunEnabled == status = "loop"

\* Weak fairness of Run, WF_vars(Run), written out over RunEnabled, the
\* enabling condition of <<Run>>_vars
FairSpec == Spec /\ ([]<>(~RunEnabled) \/ []<><<Run>>_vars)

(* ------------------- computePUCT on arbitrary children ---------------- *)
(* computePUCT reads only P of the node and Q and N of its children.  The *)
(* specification SpecPUCT starts from an expanded node whose children     *)
(* hold any ordered intervals and visit counts of the sets below, ties    *)
(* within and beyond the tolerance of 1e-8 included, and applies          *)
(* computePUCT once.                                                      *)

MaxChildN == 2

PUCT_Values == {Zero, Norm(1, 0 - 4, 2), Norm(1, 0 - 1, 2), Rat(1, 2), One}
PUCT_FewValues == {Zero, Norm(1, 0 - 1, 2), Rat(1, 2)}

PUCT_Intervals(values) ==
    {q \in values \X values : Le(q[1], q[2])}

PUCT_Priors(k) ==
    IF k = 2
    THEN { (0 :> Rat(1, 2)) @@ (1 :> Rat(1, 2)),
           (0 :> Rat(3, 4)) @@ (1 :> Rat(1, 4)),
           (0 :> Rat(1, 4)) @@ (1 :> Rat(3, 4)) }
    ELSE { (0 :> Rat(1, 3)) @@ (1 :> Rat(1, 3)) @@ (2 :> Rat(1, 3)),
           (0 :> Rat(1, 2)) @@ (1 :> Rat(1, 4)) @@ (2 :> Rat(1, 4)) }

\* the children of the node: for each edge index, <<Q, N>>
PUCT_Children(k) ==
    IF k = 2
    THEN [0..1 -> PUCT_Intervals(PUCT_Values) \X (0..MaxChildN)]
    ELSE [0..2 -> PUCT_Intervals(PUCT_FewValues) \X (0..(MaxChildN - 1))]

PUCT_Child(a, kid) ==
    [Node("Action", apply(RootInfoSet(0), a), 0, kid[1]) EXCEPT !.N = kid[2]]

PUCT_Parent(P, kids) ==
    [Node("Action", RootInfoSet(0), 0, to_interval(Zero))
        EXCEPT !.P = P, !.expanded = TRUE,
               !.actions = [i \in 1..Cardinality(DOMAIN kids) |-> i - 1],
               !.children = [i \in 1..Cardinality(DOMAIN kids) |-> i - 1]]

PUCT_Nodes(P, kids) ==
    [p \in {RootPath} \cup {ChildPath(RootPath, a) : a \in DOMAIN kids} |->
        IF p = RootPath THEN PUCT_Parent(P, kids) ELSE PUCT_Child(p[1], kids[p[1]])]

InitPUCT ==
    /\ model = CHOOSE m \in ModelSet : TRUE
    /\ \E k \in 2..3 : \E P \in PUCT_Priors(k) : \E kids \in PUCT_Children(k) :
          /\ nodes = PUCT_Nodes(P, kids)
          /\ modelCalls = [p \in DOMAIN PUCT_Nodes(P, kids) |-> 0]
          /\ visitCalls = [p \in DOMAIN PUCT_Nodes(P, kids) |-> 0]
    /\ trees = <<>>
    /\ stack = <<>>
    /\ ret = None
    /\ status = "puct"
    /\ target = 0
    /\ result = NoResult
    /\ rootN0 = 0
    /\ loopVisits = 0

\* Qc, action_indices = self.computePUCT()
ComputePUCT ==
    /\ status = "puct"
    /\ result' = [kind |-> "candidates", error |-> "",
                  value |-> computePUCT(Heap, RootPath)]
    /\ status' = "done"
    /\ UNCHANGED <<model, nodes, trees, modelCalls, visitCalls, stack, ret,
                   target, rootN0, loopVisits>>

NextPUCT == ComputePUCT

SpecPUCT == InitPUCT /\ [][NextPUCT]_vars


(* ------------------------------- claims ------------------------------- *)

NodePaths == DOMAIN nodes
ZeroInterval == to_interval(Zero)

\* C1: for every node, of the main tree or of a spawned tree, N is the
\* number of visit calls made on it: 0 at construction, one more per call
\* (terminal and expand-only visits included), changed by nothing else.
C1_NCountsVisits ==
    \A p \in NodePaths : nodes[p].N = visitCalls[p]

\* C1 witness: a terminal node, a sampling node and a spawned root have each
\* been visited, the spawned root twice (its expand-only visit and one more).
C1_Witness ==
    /\ \E p \in NodePaths : terminal(nodes[p]) /\ nodes[p].N >= 1
    /\ \E p \in NodePaths : nodes[p].kind = "Sampling" /\ nodes[p].N >= 2
    /\ \E p \in NodePaths : p # <<>> /\ p[Len(p)] = SPAWN /\ nodes[p].N >= 2

SumValues(f) == SumOver(f, DOMAIN f)

\* C2: for every n >= 0, get_visit_distribution(n) returns without raising
\* and the returned fractions sum to 1.
C2_DistributionDefined ==
    /\ result.kind # "raise"
    /\ result.kind = "return" => SumValues(result.value) = One

\* C3: for every node, Q.lower <= Q.upper after any sequence of visits.
C3_QOrdered ==
    \A p \in NodePaths : Le(nodes[p].Q[1], nodes[p].Q[2])

\* C3 witness: a node whose Q is the union interval plus a nonzero residual
\* of the child it visited last, and is a proper interval.
C3_Witness ==
    \E p \in NodePaths : \E k \in ChildKeys(nodes[p]) :
        /\ nodes[p].N >= 2
        /\ nodes[ChildPath(p, k)].residual_Q_to_V # ZeroInterval
        /\ nodes[p].Q = IAdd(calc_union_interval(Heap, p,
                                 IF nodes[p].kind = "Action" THEN nodes[p].P
                                 ELSE nodes[p].H),
                             nodes[ChildPath(p, k)].residual_Q_to_V)
        /\ Lt(nodes[p].Q[1], nodes[p].Q[2])


(* --------------------- eval_model on any oracle output ---------------- *)
(* eval_model reads the node and the output of the Model.  SpecEval       *)
(* starts from one node not yet evaluated and a Model that answers with   *)
(* any P and H of the sets below, malformed ones included (a sum far from *)
(* 1, a negative entry, a missing entry), and applies eval_model once.    *)

\* the entries of the oracle's distributions are multiples of 1 / EvalGrain
EvalGrain == 4

Vec2(a, b) == (0 :> a) @@ (1 :> b)
Vec3(a, b, c) == (0 :> a) @@ (1 :> b) @@ (2 :> c)

\* P over the two actions: every split of 1, and malformed outputs
EvalP ==
    {Vec2(Rat(i, EvalGrain), Rat(EvalGrain - i, EvalGrain)) : i \in 0..EvalGrain}
    \cup { Vec2(One, One), Vec2(Rat(1, 4), Rat(1, 4)),
           Vec2(Rat(5, 4), Rat(0 - 1, 4)), (0 :> One) }

\* H over the three hidden states: distributions, all mass on one state,
\* masses around the floor of 1e-6, and a negative entry
EvalH ==
    { Vec3(Rat(1, 3), Rat(1, 3), Rat(1, 3)), Vec3(Rat(1, 2), Rat(1, 4), Rat(1, 4)),
      Vec3(Zero, Rat(1, 2), Rat(1, 2)),
      Vec3(One, Zero, Zero), Vec3(Zero, One, Zero), Vec3(Zero, Zero, One),
      Vec3(One, One, One),
      Vec3(<<0, 10, 1>>, <<0, 10, 1>>, Zero), Vec3(<<0, 200, 1>>, Zero, Zero),
      Vec3(<<0, 200, 1>>, <<0, 200, 1>>, Zero), Vec3(<<0, 50, 1>>, <<0, 50, 1>>, <<0, 50, 1>>),
      Vec3(Rat(0 - 1, 2), One, Rat(1, 2)) }

EvalModelSet ==
    {[p |-> "given", v |-> "flat", h |-> "given", P |-> P, H |-> H] :
        P \in EvalP, H \in EvalH}

\* the node: an ActionNode at the start of a game, or a SamplingNode after
\* one move, of an owner who holds the given card
EvalNodes ==
    {ActionNode(RootInfoSet(card), 0, Zero) : card \in Cards}
    \cup {SamplingNode(apply(RootInfoSet(card), 1), 0, Zero) : card \in Cards}

InitEval ==
    /\ model \in EvalModelSet
    /\ \E node \in EvalNodes : nodes = (RootPath :> node)
    /\ modelCalls = (RootPath :> 0)
    /\ visitCalls = (RootPath :> 0)
    /\ trees = <<>>
    /\ stack = <<>>
    /\ ret = None
    /\ status = "eval"
    /\ target = 0
    /\ result = NoResult
    /\ rootN0 = 0
    /\ loopVisits = 0

\* node.eval_model(model)
EvalModel ==
    /\ status = "eval"
    /\ Commit(eval_model(Heap, RootPath))
    /\ status' = "done"
    /\ UNCHANGED <<model, stack, ret, target, result, rootN0, loopVisits>>

NextEval == EvalModel

SpecEval == InitEval /\ [][NextEval]_vars

(* ------------- get_mixing_distribution on any candidate set ----------- *)
(* get_mixing_distribution reads P of the node and the candidate indices. *)
(* SpecMix starts from a node of three actions with any prior of the set  *)
(* below, entries of 0 and of 1e-8 included, and any non-empty candidate  *)
(* set, and applies get_mixing_distribution once.                         *)

\* the entries of the prior are multiples of 1 / MixGrain
MixGrain == 4

MixP ==
    {Vec3(Rat(i, MixGrain), Rat(j, MixGrain), Rat(MixGrain - i - j, MixGrain)) :
        <<i, j>> \in {ij \in (0..MixGrain) \X (0..MixGrain) : ij[1] + ij[2] <= MixGrain}}
    \cup {Vec3(Tol, Tol, Sub(One, MulInt(Tol, 2))), Vec3(Tol, Zero, Sub(One, Tol))}

\* the candidate sets: non-empty, and of a retained mass that is a rational
\* or a multiple of 1e-8
MixCandidates(P) ==
    {S \in (SUBSET (0..2)) \ {{}} : SumOver(P, S)[1] = 0 \/ SumOver(P, S)[2] = 0}

MixNode(P) ==
    [Node("Action", RootInfoSet(0), 0, to_interval(Zero))
        EXCEPT !.P = P, !.expanded = TRUE, !.actions = <<0, 1, 2>>]

InitMix ==
    /\ model = CHOOSE m \in ModelSet : TRUE
    /\ \E P \in MixP : \E S \in MixCandidates(P) :
          /\ nodes = (RootPath :> MixNode(P))
          /\ result = [kind |-> "candidates", error |-> "", value |-> S]
    /\ modelCalls = (RootPath :> 0)
    /\ visitCalls = (RootPath :> 0)
    /\ trees = <<>>
    /\ stack = <<>>
    /\ ret = None
    /\ status = "mix"
    /\ target = 0
    /\ rootN0 = 0
    /\ loopVisits = 0

\* mixing_distr = self.get_mixing_distribution(action_indices); a failed
\* assertion ends the call
MixingDistribution ==
    /\ status = "mix"
    /\ LET mixing_distr == get_mixing_distribution(nodes[RootPath], result.value)
       IN  result' = IF mixing_distr = NoDist
                     THEN [kind |-> "raise", error |-> "AssertionError",
                           value |-> NoDist, candidates |-> result.value]
                     ELSE [kind |-> "mixing", error |-> "",
                           value |-> mixing_distr, candidates |-> result.value]
    /\ status' = "done"
    /\ UNCHANGED <<model, nodes, trees, modelCalls, visitCalls, stack, ret,
                   target, rootN0, loopVisits>>

NextMix == MixingDistribution

SpecMix == InitMix /\ [][NextMix]_vars

\* the lower score bound of the edge i exceeds the upper score bound of
\* every other edge by more than margin
PUCT_Dominates(i, margin) ==
    \A j \in EdgeIndices(Heap, RootPath) \ {i} :
        PUCT_cmp(Heap, RootPath, i, 1, j, 2, Neg(margin)) > 0

\* C4 as stated: whenever the lower score bound of one child strictly
\* exceeds the upper score bound of every other child, computePUCT returns
\* exactly one candidate.
C4_StrictDominance ==
    result.kind = "candidates"
    => \A i \in EdgeIndices(Heap, RootPath) :
          PUCT_Dominates(i, Zero) => Cardinality(result.value) = 1

\* C4, amended: whenever the lower score bound of one child exceeds the upper
\* score bound of every other child by more than 1e-8, computePUCT returns
\* exactly that child as its only candidate.
C4_DominanceBeyondTolerance ==
    result.kind = "candidates"
    => \A i \in EdgeIndices(Heap, RootPath) :
          PUCT_Dominates(i, Tol) => result.value = {i}

\* C4 witness: among three visited children, the last one dominates by more
\* than the tolerance although its lower value bound does not exceed the
\* upper value bound of another child: the exploration terms, with the
\* irrational sqrt(2), decide; computePUCT returned that child alone.
C4_Witness ==
    /\ result.kind = "candidates"
    /\ Cardinality(EdgeIndices(Heap, RootPath)) = 3
    /\ PUCT_sumN(Heap, RootPath) = 2
    /\ PUCT_Dominates(2, Tol)
    /\ \E j \in {0, 1} : Le(EdgeChild(Heap, RootPath, 2).Q[1],
                             EdgeChild(Heap, RootPath, j).Q[2])
    /\ result.value = {2}

ActionSet(n) == {n.actions[i] : i \in 1..Len(n.actions)}

\* C5: the first visit of a non-terminal ActionNode that is not yet expanded
\* only expands it: afterwards N = 1, there is exactly one child per legal
\* action, no child has been visited, and the visit has returned no action.
C5_FirstVisitExpandsOnly ==
    [][ ( /\ AtStart("Action")
          /\ ~terminal(nodes[Top.node])
          /\ ~nodes[Top.node].expanded )
        => LET p == Top.node
           IN  /\ nodes'[p].N = 1
               /\ nodes'[p].expanded
               /\ Len(nodes'[p].children) = Len(nodes[p].actions)
               /\ ChildKeys(nodes'[p]) = ActionSet(nodes[p])
               /\ \A a \in ActionSet(nodes[p]) :
                      /\ ChildPath(p, a) \in DOMAIN nodes'
                      /\ nodes'[ChildPath(p, a)].N = 0
                      /\ visitCalls'[ChildPath(p, a)] = 0
               /\ stack' = Pop
               /\ ret' = None ]_vars

\* C5 witness: a first visit has just returned from a node below the root:
\* the node is expanded, has N = 1 and two unvisited children, and no
\* action was returned.
C5_Witness ==
    \E p \in NodePaths :
        /\ p # RootPath
        /\ nodes[p].kind = "Action" /\ ~terminal(nodes[p])
        /\ nodes[p].expanded /\ nodes[p].N = 1
        /\ Len(nodes[p].children) = 2
        /\ \A a \in ChildKeys(nodes[p]) : nodes[ChildPath(p, a)].N = 0
        /\ ret = None
        /\ stack # <<>> /\ Top.pc = "sn_child" /\ ChildPath(Top.node, Top.key) = p

\* the frames whose visit of the spawned root is in progress
SpawnCallers ==
    {i \in 1..(Len(stack) - 1) : stack[i].pc \in {"sv_boot", "sv_root"}}

\* C6: while the visit of a spawned tree's root is in progress, only nodes
\* of that spawned tree (and of trees spawned from it) change or appear:
\* every node outside it, the owner of the spawned tree included, is left
\* as it was; the outer tree changes only in spawned_visit's own steps.
C6_SpawnedIsolation ==
    [][ \A i \in SpawnCallers :
          \A q \in DOMAIN nodes' :
             ~InSpawnedTree(stack[i].node, q)
                => q \in DOMAIN nodes /\ nodes'[q] = nodes[q] ]_vars

\* C6 witness: spawned_visit has the action of the spawned root in hand: the
\* spawned root was visited twice and expanded its tree, and the owner of
\* the spawned tree has not visited a child yet.
C6_Witness ==
    /\ stack # <<>> /\ Top.pc = "sv_root"
    /\ ret # None
    /\ nodes[SpawnRoot(Top.node)].N = 2
    /\ nodes[ChildPath(SpawnRoot(Top.node), ret)].N = 1
    /\ \A a \in ChildKeys(nodes[Top.node]) : nodes[ChildPath(Top.node, a)].N = 0

MaskedMass(n) ==
    LET raw == hidden_eval(model, n.tree_owner, n.info_set).H
    IN  SumOver([i \in DOMAIN raw |-> MulInt(raw[i], n.H_mask[i])], DOMAIN raw)

\* C7: for every evaluated SamplingNode, H is exactly 0 wherever H_mask is 0
\* and sums to 1 over the legal indices.
C7_MaskedH ==
    \A p \in NodePaths :
        (nodes[p].kind = "Sampling" /\ nodes[p].H # NoDist)
        => LET n == nodes[p]
               legal == {i \in DOMAIN n.H_mask : n.H_mask[i] = 1}
           IN  /\ DOMAIN n.H = DOMAIN n.H_mask
               /\ \A i \in DOMAIN n.H : n.H_mask[i] = 0 => n.H[i] = Zero
               /\ SumOver(n.H, legal) = One

\* C7 witness: one evaluated SamplingNode took the uniform fallback (the
\* oracle's mass on its legal indices is below 1e-6), another renormalized.
C7_Witness ==
    /\ \E p \in NodePaths :
          /\ nodes[p].kind = "Sampling" /\ nodes[p].H # NoDist
          /\ Lt(MaskedMass(nodes[p]), MaskFloor)
    /\ \E p \in NodePaths :
          /\ nodes[p].kind = "Sampling" /\ nodes[p].H # NoDist
          /\ ~Lt(MaskedMass(nodes[p]), MaskFloor)

Evaluated(n) == IF n.kind = "Action" THEN n.P # NoDist ELSE n.H # NoDist

\* C8: the Model is queried exactly once for every non-terminal node that
\* has been evaluated, visited or not, and never for another; once a node is
\* evaluated, no later step queries the Model for it or changes its P, H, V
\* or Vc, and the expand of its first visit leaves its Q as it was.
C8_EvaluatedOnce ==
    /\ [](\A p \in NodePaths :
            /\ modelCalls[p] = IF ~terminal(nodes[p]) /\ Evaluated(nodes[p]) THEN 1 ELSE 0
            /\ (nodes[p].N >= 1 /\ ~terminal(nodes[p])) => modelCalls[p] = 1)
    /\ [][ \A p \in NodePaths :
             modelCalls[p] = 1
             => /\ modelCalls'[p] = 1
                /\ nodes'[p].P = nodes[p].P /\ nodes'[p].H = nodes[p].H
                /\ nodes'[p].V = nodes[p].V /\ nodes'[p].Vc = nodes[p].Vc
                /\ (stack # <<>> /\ Top.pc = "start" /\ Top.node = p
                      /\ ~nodes[p].expanded)
                   => nodes'[p].Q = nodes[p].Q ]_vars

\* C8 witness: a node evaluated by its parent's expand has since had its
\* first visit, whose expand called eval_model on it again.
C8_Witness ==
    \E p \in NodePaths :
        /\ p # RootPath /\ p[Len(p)] # SPAWN
        /\ ~terminal(nodes[p])
        /\ nodes[p].expanded /\ nodes[p].N >= 1
        /\ modelCalls[p] = 1

\* C9: a terminal ActionNode keeps what its constructor gave it: V the game
\* outcome for the tree owner, Q the degenerate interval of V, no children,
\* no Model output, a zero residual, not expanded; only N grows.
C9_TerminalFixed ==
    \A p \in NodePaths :
        (nodes[p].kind = "Action" /\ terminal(nodes[p]))
        => LET n == nodes[p]
           IN  /\ n.V = get_game_outcome(n.info_set)[n.tree_owner]
               /\ n.Q = to_interval(n.V)
               /\ n.children = <<>>
               /\ ~n.expanded
               /\ modelCalls[p] = 0
               /\ n.P = NoDist /\ n.Vc = NoDist
               /\ n.residual_Q_to_V = ZeroInterval

\* C9 witness: a visit of a terminal node has just returned to the visit of
\* its parent.
C9_Witness ==
    /\ stack # <<>> /\ Top.pc \in {"sv_child", "uv_child"}
    /\ LET c == ChildPath(Top.node, Top.key)
       IN  /\ nodes[c].kind = "Action" /\ terminal(nodes[c])
           /\ nodes[c].N >= 1 /\ visitCalls[c] = nodes[c].N


\* the loop of get_visit_distribution has ended, by its return or by the
\* division that follows it
LoopEnded ==
    /\ status # "loop"
    /\ \/ result.kind = "return"
       \/ result.kind = "raise" /\ result.error = "ZeroDivisionError"

\* C10: every call of get_visit_distribution(n) ends; its loop starts a root
\* visit only while root.N <= n; a call on a root with N = N0 makes
\* n + 1 - N0 root visits and leaves root.N = n + 1 when N0 <= n (n + 1
\* visits, at least one, on a root never visited), and makes no visit and
\* leaves root.N = N0 when N0 > n.
C10_LoopTerminates ==
    /\ (status = "loop") ~> (status # "loop")
    /\ [][loopVisits' = loopVisits + 1 => nodes[RootPath].N <= target]_vars
    /\ [](LoopEnded =>
            IF rootN0 > target
            THEN loopVisits = 0 /\ nodes[RootPath].N = rootN0
            ELSE /\ loopVisits = target + 1 - rootN0
                 /\ nodes[RootPath].N = target + 1
                 /\ visitCalls[RootPath] = target + 1)

\* C10 witness: a call on a root already visited more often than n has
\* returned without a visit, after an earlier call on the fresh tree that
\* made at least three visits.
C10_Witness ==
    /\ status = "idle" /\ result.kind = "return"
    /\ rootN0 > target /\ rootN0 >= 3
    /\ loopVisits = 0
    /\ nodes[RootPath].N = rootN0


\* a distribution over 0..n-1 as the Model's contract wants it: the right
\* length, no negative entry, a sum within 1e-6 of 1
WellFormed(d, n) ==
    /\ DOMAIN d = 0..(n - 1)
    /\ \A i \in DOMAIN d : Le(Zero, d[i])
    /\ Le(Sub(One, MaskFloor), SumOver(d, DOMAIN d))
    /\ Le(SumOver(d, DOMAIN d), Add(One, MaskFloor))

\* the distribution the Model answers with for the node n
OracleOutput(n) ==
    IF n.kind = "Action" THEN action_eval(model, n.tree_owner, n.info_set).P
    ELSE hidden_eval(model, n.tree_owner, n.info_set).H

OracleLength(n) == IF n.kind = "Action" THEN Len(n.actions) ELSE NumCards

\* C12 as stated: a malformed output of the Model is rejected by eval_model
\* with an invalid-oracle-output error and nothing of it is stored in the
\* node.
C12_MalformedRejected ==
    status = "done"
    => LET n == nodes[RootPath]
       IN  ~WellFormed(OracleOutput(n), OracleLength(n))
           => /\ n.P = NoDist /\ n.H = NoDist /\ n.V = NoVal /\ n.Vc = NoDist
              /\ result.kind = "raise"
              /\ result.error = "InvalidOracleOutput"

LegalIndices(n) == {i \in DOMAIN n.H_mask : n.H_mask[i] = 1}

\* the oracle's H on the legal indices, and its mass there
MaskedOracleH(n) ==
    LET raw == hidden_eval(model, n.tree_owner, n.info_set).H
    IN  [i \in DOMAIN raw |-> IF n.H_mask[i] = 1 THEN raw[i] ELSE Zero]

RetainedMass(n) == SumOver(MaskedOracleH(n), DOMAIN MaskedOracleH(n))

\* C13: after the evaluation of a SamplingNode, H is the uniform distribution
\* over the legal indices (1/k on each, 0 elsewhere) when the oracle's mass
\* on the legal indices is below 1e-6, and otherwise the masked oracle
\* distribution divided by that mass.
C13_UniformFallback ==
    (status = "done" /\ nodes[RootPath].kind = "Sampling")
    => LET n == nodes[RootPath]
           k == Cardinality(LegalIndices(n))
       IN  /\ DOMAIN n.H = DOMAIN n.H_mask
           /\ IF Lt(RetainedMass(n), MaskFloor)
              THEN \A i \in DOMAIN n.H :
                      n.H[i] = IF i \in LegalIndices(n) THEN Rat(1, k) ELSE Zero
              ELSE \A i \in DOMAIN n.H :
                      Mul(RetainedMass(n), n.H[i]) = MaskedOracleH(n)[i]

\* C13 witness: the example of the claim: Hmask = [1, 1, 0], the oracle puts
\* all its mass on the illegal index, and H = [0.5, 0.5, 0].
C13_Witness ==
    /\ status = "done" /\ nodes[RootPath].kind = "Sampling"
    /\ nodes[RootPath].H_mask = Vec3(1, 1, 0)
    /\ hidden_eval(model, 0, nodes[RootPath].info_set).H = Vec3(Zero, Zero, One)
    /\ nodes[RootPath].H = Vec3(Rat(1, 2), Rat(1, 2), Zero)


\* x * y when one of the two is a plain rational
Times(x, y) == IF y[2] = 0 THEN Mul(x, y) ELSE Mul(y, x)

\* the prior mass on the candidate set S
CandidateMass(P, S) == SumOver(P, S)

\* C11 as stated, approximately 0 read as within 1e-8 of 0: when the prior
\* mass retained on the candidates is approximately 0,
\* get_mixing_distribution aborts and returns no distribution.
C11_AbortNearZero ==
    status = "done"
    => (Le(CandidateMass(nodes[RootPath].P, result.candidates), Tol)
        => result.kind = "raise")

\* C11, amended: when the prior mass retained on the candidates is not
\* positive, get_mixing_distribution aborts (its assertion fails) and
\* returns no distribution; for every positive mass, however small, it
\* returns the prior, zero outside the candidates, divided by the retained
\* mass, which sums to 1.
C11_MixingOrAbort ==
    status = "done"
    => LET P == nodes[RootPath].P
           S == result.candidates
           mass == CandidateMass(P, S)
       IN  IF ~Lt(Zero, mass)
           THEN /\ result.kind = "raise"
                /\ result.error = "AssertionError"
                /\ result.value = NoDist
           ELSE /\ result.kind = "mixing"
                /\ DOMAIN result.value = DOMAIN P
                /\ \A i \in DOMAIN P :
                      IF i \in S THEN Times(mass, result.value[i]) = P[i]
                      ELSE result.value[i] = Zero
                /\ SumOver(result.value, DOMAIN P) = One

\* C11 witness: two candidates of prior 0 beside a third action that holds
\* all the prior: the call has aborted.
C11_Witness ==
    /\ status = "done"
    /\ nodes[RootPath].P = Vec3(Zero, Zero, One)
    /\ result.candidates = {0, 1}
    /\ result.kind = "raise"


\* the sum of N over the direct children of the node at p
ChildNSum(p) ==
    LET kids == ChildKeys(nodes[p])
    IN  SumOver([k \in kids |-> <<nodes[ChildPath(p, k)].N, 0, 1>>], kids)[1]

\* C14: when no visit is in progress, the N of the children of every
\* expanded non-terminal ActionNode sum to N - 1 (every visit but the first
\* went into exactly one child), and the N of the children of every
\* SamplingNode sum to N; and every step of a visit starts at most one visit
\* of another node.
C14_VisitConservation ==
    /\ [](stack = <<>> =>
            \A p \in NodePaths :
                /\ (nodes[p].kind = "Action" /\ nodes[p].expanded /\ ~terminal(nodes[p]))
                      => ChildNSum(p) = nodes[p].N - 1
                /\ (nodes[p].kind = "Action" /\ terminal(nodes[p]))
                      => ChildNSum(p) = 0
                /\ nodes[p].kind = "Sampling" => ChildNSum(p) = nodes[p].N)
    /\ [][Len(stack') <= Len(stack) + 1]_vars

\* C14 witness: between two root visits, a SamplingNode visited twice and an
\* ActionNode with a spawned tree visited twice.
C14_Witness ==
    /\ stack = <<>> /\ status = "loop"
    /\ \E p \in NodePaths : nodes[p].kind = "Sampling" /\ nodes[p].N >= 2
    /\ \E p \in NodePaths : nodes[p].spawned_tree /\ nodes[p].N >= 2

\* C15: when no visit is in progress, every non-terminal ActionNode X with a
\* spawned tree and X.N >= 2 has the N of the spawned root, and each of its children has
\* the N of the spawned root's child of the same action.
C15_SpawnedMirror ==
    stack = <<>>
    => \A p \in NodePaths :
          (nodes[p].spawned_tree /\ ~terminal(nodes[p]) /\ nodes[p].N >= 2)
          => LET r == SpawnRoot(p)
             IN  /\ nodes[r].N = nodes[p].N
                 /\ ChildKeys(nodes[r]) = ChildKeys(nodes[p])
                 /\ \A a \in ChildKeys(nodes[p]) :
                       nodes[ChildPath(p, a)].N = nodes[ChildPath(r, a)].N

\* C15 witness: an ActionNode with a spawned tree visited three times: one
\* expand-only visit, one spawned visit with the bootstrap and one without.
C15_Witness ==
    /\ stack = <<>>
    /\ \E p \in NodePaths :
          /\ nodes[p].spawned_tree /\ ~terminal(nodes[p]) /\ nodes[p].N = 3
          /\ nodes[SpawnRoot(p)].N = 3
          /\ \E a \in ChildKeys(nodes[p]) : nodes[ChildPath(p, a)].N >= 1

\* the edge index of the action a of the node n
ActionIndex(n, a) == (CHOOSE i \in 1..Len(n.actions) : n.actions[i] = a) - 1

\* the frame of the caller of the visit on top of the stack
Caller == stack[Len(stack) - 1]

\* C16: the child a non-spawned selecting visit goes into belongs to the
\* candidate set of computePUCT: it is the only candidate in the pure case;
\* in the mixed case it has positive probability in a mixing distribution
\* that is 0 on every non-candidate; and the visit returns that action.
C16_SelectedIsCandidate ==
    /\ [][ ( /\ AtStart("Action")
             /\ Len(stack') = Len(stack) + 1
             /\ stack'[Len(stack)].pc = "uv_child" )
           => LET p == Top.node
                  n == nodes[p]
                  candidates == computePUCT(Heap, p)
                  a == stack'[Len(stack)].key
                  mixing_distr == get_mixing_distribution(n, candidates)
              IN  /\ stack'[Len(stack')].node = ChildPath(p, a)
                  /\ ActionIndex(n, a) \in candidates
                  /\ Cardinality(candidates) # 1
                       => /\ \A i \in DOMAIN n.P \ candidates : mixing_distr[i] = Zero
                          /\ Lt(Zero, mixing_distr[ActionIndex(n, a)]) ]_vars
    /\ [][AtSite("uv_child") => ret' = Top.key]_vars

\* C16 witness: a selecting visit has just gone into the only candidate,
\* although the other child has a positive prior.
C16_Witness ==
    /\ Len(stack) >= 2 /\ Top.pc = "start" /\ Caller.pc = "uv_child"
    /\ LET p == Caller.node
       IN  /\ computePUCT(Heap, p) = {ActionIndex(nodes[p], Caller.key)}
           /\ \A i \in DOMAIN nodes[p].P : Lt(Zero, nodes[p].P[i])


\* the parent of the node at the path p
Parent(p) == SubSeq(p, 1, Len(p) - 1)

IsChild(p) == p # RootPath /\ p[Len(p)] # SPAWN

BestLower ==
    {i \in EdgeIndices(Heap, RootPath) :
        \A j \in EdgeIndices(Heap, RootPath) : PUCT_cmp(Heap, RootPath, i, 1, j, 1, Zero) >= 0}

\* C20: the candidate set of computePUCT is never empty and holds every
\* child whose lower score bound is the largest, for children of ordered Q.
C20_CandidatesHoldBest ==
    result.kind = "candidates"
    => /\ result.value # {}
       /\ result.value \subseteq EdgeIndices(Heap, RootPath)
       /\ BestLower # {}
       /\ BestLower \subseteq result.value

\* C20 witness: the child of the largest lower score bound has a degenerate
\* Q, so that its upper bound equals bestLower, and is a candidate beside
\* another child.
C20_Witness ==
    /\ result.kind = "candidates"
    /\ \E i \in BestLower :
          /\ EdgeChild(Heap, RootPath, i).Q[1] = EdgeChild(Heap, RootPath, i).Q[2]
          /\ i \in result.value
          /\ result.value # {i}

=============================================================================
